---- MODULE Spec2Model ----
(***************************************************************************)
(* A model of the Bol.com product tracker: the result extractor, the       *)
(* two-strategy ranking locator and its entry points (product_tracker.py), *)
(* and the daily scheduler (scheduler.py).                                 *)
(*                                                                         *)
(* Text is modelled by what the code reads of it.  A path segment (the     *)
(* pieces of a URL between "/") is a record [s, n, digits]: its label, its *)
(* length and whether it consists of decimal digits only.  A text node or  *)
(* attribute value is a record [s, n, pad, cls]: its label, its length     *)
(* after strip(), the number of surrounding blanks, and its class          *)
(* ("alpha", "digit": isdigit() holds, "deny": one of the three generic    *)
(* labels of line 403).                                                    *)
(***************************************************************************)
EXTENDS Integers, Sequences, FiniteSets, TLC

VARIABLES
    \* --- result extractor (one _extract_products_from_html call)
    html,            \* the markup handed to the extractor: a sequence of elements
    extracted,       \* [done, value]: the call's return value once it returned
    \* --- ranking locator and its entry points
    caller,          \* which entry point is running: "locate", "add", "track"
    productUrl,      \* the product URL handed to add_tracked_product / track_product
    targetId,        \* target_product_id of the locate call (a segment)
    maxPages,        \* max_pages of the locate call
    hasSelenium,     \* HAS_SELENIUM: whether the browser backend was importable
    pc,              \* position of the call: "start", "mobile", "fallback", "browser", "build", "post", "done"
    page,            \* the loop variable `page` of the running strategy
    products,        \* search_products_mobile's accumulated list
    targetInfo,      \* search_products_mobile's target_info
    browserProducts, \* search_products_browser's accumulated list
    browserInfo,     \* search_products_browser's target_info
    browserOpen,     \* a headless browser process is open
    browserRan,      \* search_products_browser was called in this locate call
    fetchLog,        \* per strategy, the page fetches issued, in order: [page, outcome, count]
    ranking,         \* [done, raised, value]: find_product_ranking's return value once it ended
    outcome,         \* how the entry point ended: "pending", "returned", "returned_none", "raised_value_error", "raised"
    trackedRows,     \* rows of table tracked_products
    historyRows,     \* rows of table product_tracking
    \* --- scheduler (scheduler.py)
    running,         \* ProductTrackerScheduler.running
    schedulerThread, \* ProductTrackerScheduler.scheduler_thread: Null or Some(thread id)
    threads,         \* the background threads created so far:
                     \* id -> [pc, wakeAt, nextRun, stopSeen, errAt, died]
    clock,           \* wall clock, seconds since 2026-01-01T00:00:00Z
    api,             \* the API caller: "idle", or "joining" inside stop_scheduler's join
    batchLog,        \* the batch invocations made: <<thread, scheduled occurrence>>
    \* --- next-run arithmetic (one _get_next_run_time call)
    nowUtc,          \* the instant datetime.now() returns, seconds since 2026-01-01T00:00:00Z
    nextRun,         \* [done, value]: the aware datetime [wall, off] once it returned
    \* --- batch routine (one run_scheduled_checks call)
    trackerNow,      \* the reading of datetime.now() in product_tracker.py, in ticks
    batchPc,         \* position of the call: "idle", "loop", "done", "raised"
    rows,            \* the rows the SELECT of line 557 returned
    idx,             \* index in rows of the entry the for loop of line 560 handles next
    results,         \* the list results; each entry also notes when it was made (at)
    batchRuns        \* run_scheduled_checks calls begun so far

extractVars == <<html, extracted>>
callVars == <<caller, productUrl, targetId, maxPages, hasSelenium, pc, page, products,
              targetInfo, browserProducts, browserInfo, browserOpen, browserRan,
              fetchLog, ranking, outcome>>
locateVars == <<callVars, trackedRows, historyRows>>
schedVars == <<running, schedulerThread, threads, clock, api, batchLog>>
clockVars == <<nowUtc, nextRun>>
batchVars == <<trackerNow, batchPc, rows, idx, results, batchRuns>>
vars == <<extractVars, locateVars, schedVars, clockVars, batchVars>>

\* Python's None, and a value that is present
Null == <<>>
Some(x) == <<x>>

(***************************************************************************)
(* Bounds of the model.                                                    *)
(***************************************************************************)
\* longest markup handed to the extractor on its own
MaxElems == 3
\* largest max_pages of a locate call
MaxPagesBound == 2
\* longest page markup a fetch returns (besides the scenario page)
MaxPageElems == 1

(***************************************************************************)
(* Program constants.                                                      *)
(***************************************************************************)
\* r"/(\d{10,})/" and r"\d{10,}"
MinIdDigits == 10
\* [:100]
MaxNameLen == 100
\* len(text) > 10 in the link-text rule
MinLinkTextLen == 10
\* len(text) > 3 in the card rule
MinCardTextLen == 3

Min(a, b) == IF a <= b THEN a ELSE b

(***************************************************************************)
(* Path segments and URLs.                                                 *)
(***************************************************************************)
Seg(s, n) == [s |-> s, n |-> n, digits |-> FALSE]
DigSeg(s, n) == [s |-> s, n |-> n, digits |-> TRUE]
EmptySeg == Seg("", 0)
MarkerSeg == Seg("p", 1)

\* A URL or href: whether it starts with "http", and its pieces split at "/".
Url(abs, path) == [abs |-> abs, path |-> path]
NoHref == Url(FALSE, <<>>)

\* the segments a "/" precedes and a "/" follows
Enclosed(path) == 2 .. (Len(path) - 1)

\* re.search(r"/(\d{10,})/", url): the leftmost run of 10 or more digits that
\* fills a whole segment between two "/"
IdMatches(path) ==
    {k \in Enclosed(path) : path[k].digits /\ path[k].n >= MinIdDigits}

HasIdMatch(path) == IdMatches(path) # {}

FirstIdMatch(path) ==
    path[CHOOSE k \in IdMatches(path) : \A j \in IdMatches(path) : k <= j]

\* "/p/" in href
HasMarker(path) == \E k \in Enclosed(path) : path[k] = MarkerSeg

\* an identifier search that does not ask for the "/" after the digits
get_product_id_unanchored(url) ==
    LET hits == {k \in 2 .. Len(url.path) :
                    url.path[k].digits /\ url.path[k].n >= MinIdDigits}
    IN  IF hits # {}
        THEN [ok |-> TRUE, id |-> url.path[CHOOSE k \in hits : \A j \in hits : k <= j]]
        ELSE [ok |-> FALSE, id |-> EmptySeg]

\* get_product_id: the identifier, or the ValueError
get_product_id(url) ==
    IF HasIdMatch(url.path)
    THEN [ok |-> TRUE, id |-> FirstIdMatch(url.path)]
    ELSE [ok |-> FALSE, id |-> EmptySeg]

(***************************************************************************)
(* Text values.                                                            *)
(***************************************************************************)
Txt(s, n, cls) == [s |-> s, n |-> n, pad |-> 0, cls |-> cls]
NoText == [s |-> "", n |-> 0, pad |-> 0, cls |-> "none"]
UnknownProduct == Txt("Unknown Product", 15, "alpha")

\* truthiness of an attribute value as read (before strip)
Present(t) == t.n + t.pad > 0
\* .strip()
Strip(t) == [t EXCEPT !.pad = 0]
\* [:100]
Trunc(t) == [t EXCEPT !.n = Min(t.n, MaxNameLen)]

(***************************************************************************)
(* Markup elements, in document order.                                     *)
(*   tag      "a" or another tag                                           *)
(*   href     the href attribute (a Url); NoHref when absent or empty      *)
(*   dpid     the data-product-id attribute; EmptySeg when absent or empty *)
(*   h        text of the first h2 (else h3) inside the element            *)
(*   title, aria   the title and aria-label attributes                     *)
(*   text     get_text(strip=True) of the element                          *)
(*   testid   data-testid is set and contains "product"                    *)
(*   near     text of the first h2, h3 or span inside the parent           *)
(*   inner    text of the first h2, h3 or span inside the element          *)
(***************************************************************************)
Elem(tag, href, dpid, h, title, text, aria, testid, near, inner) ==
    [tag |-> tag, href |-> href, dpid |-> dpid, h |-> h, title |-> title,
     text |-> text, aria |-> aria, testid |-> testid, near |-> near, inner |-> inner]

\* soup.find_all("a", href=True) plus the test on href, lines 376-381
IsProductLink(e) ==
    /\ e.tag = "a"
    /\ e.href # NoHref
    /\ HasMarker(e.href.path)
    /\ HasIdMatch(e.href.path)

\* the name fallback chain of a product link, lines 389-415
LinkName(e) ==
    IF e.h.n > 0 THEN Trunc(Strip(e.h))
    ELSE IF Present(e.title) THEN Trunc(Strip(e.title))
    ELSE IF e.text.n > 0
         THEN IF /\ e.text.n > MinLinkTextLen
                 /\ e.text.cls # "digit"
                 /\ e.text.cls # "deny"
              THEN Trunc(Strip(e.text))
              ELSE UnknownProduct
    ELSE IF Present(e.aria) THEN Trunc(Strip(e.aria))
    ELSE IF e.testid
         THEN IF e.near.n > 0 THEN Trunc(Strip(e.near)) ELSE UnknownProduct
    ELSE UnknownProduct

\* href if href.startswith("http") else "https://www.bol.com" + href
LinkUrl(href) ==
    IF href.abs THEN href
    ELSE Url(TRUE, <<Seg("https:", 6), EmptySeg,
                     Seg("www.bol.com" , 11 + href.path[1].n)>> \o Tail(href.path))

LinkRecord(e) ==
    [id |-> FirstIdMatch(e.href.path), name |-> LinkName(e), url |-> LinkUrl(e.href)]

\* a card of the second pass, lines 425-427 (without the seen_ids test)
IsCard(e) ==
    /\ e.dpid.n > 0
    /\ e.dpid.digits
    /\ e.dpid.n >= MinIdDigits

\* lines 428-433
CardName(e) ==
    IF e.inner.n > MinCardTextLen THEN Trunc(Strip(e.inner)) ELSE UnknownProduct

\* f"https://www.bol.com/nl/nl/p/{pid}/"
CardUrl(pid) ==
    Url(TRUE, <<Seg("https:", 6), EmptySeg, Seg("www.bol.com", 11), Seg("nl", 2),
                Seg("nl", 2), MarkerSeg, pid, EmptySeg>>)

CardRecord(e) == [id |-> e.dpid, name |-> CardName(e), url |-> CardUrl(e.dpid)]

Ids(recs) == {recs[i].id : i \in 1 .. Len(recs)}

\* a first loop without the seen_ids test of lines 385-386
LinkStepNoSeen(acc, e) ==
    IF IsProductLink(e) THEN Append(acc, LinkRecord(e)) ELSE acc

\* one iteration of the first loop (lines 376-422): seen_ids is the set of
\* identifiers of the records appended so far
LinkStep(acc, e) ==
    IF IsProductLink(e) /\ FirstIdMatch(e.href.path) \notin Ids(acc)
    THEN Append(acc, LinkRecord(e))
    ELSE acc

\* one iteration of the second loop (lines 425-439)
CardStep(acc, e) ==
    IF IsCard(e) /\ e.dpid \notin Ids(acc)
    THEN Append(acc, CardRecord(e))
    ELSE acc

\* the first loop, over the elements in document order
LinkPass(markup) ==
    LET acc[i \in 0 .. Len(markup)] ==
            IF i = 0 THEN <<>> ELSE LinkStep(acc[i - 1], markup[i])
    IN  acc[Len(markup)]

\* the second loop, started with the records and seen_ids of the first
CardPass(markup, first) ==
    LET acc[i \in 0 .. Len(markup)] ==
            IF i = 0 THEN first ELSE CardStep(acc[i - 1], markup[i])
    IN  acc[Len(markup)]

\* _extract_products_from_html: the first loop runs to its end, then the second
ExtractProductsFromHtml(markup) ==
    LET links == LinkPass(markup)
    IN  IF Len(links) = 0 THEN CardPass(markup, <<>>) ELSE CardPass(markup, links)

(***************************************************************************)
(* The extractor on its own: one call on a bounded markup.                 *)
(***************************************************************************)
IdA == DigSeg("1000000001", 10)
IdB == DigSeg("20000000022", 11)
IdC == DigSeg("300000000333", 12)
ShortId == DigSeg("123456789", 9)

\* "/nl/nl/p/<slug>/<id>/"
ProductHref(slug, id) ==
    Url(FALSE, <<EmptySeg, Seg("nl", 2), Seg("nl", 2), MarkerSeg, slug, id, EmptySeg>>)

Link(href, h, title, text) ==
    Elem("a", href, EmptySeg, h, title, text, NoText, FALSE, NoText, NoText)

Card(dpid, inner) ==
    Elem("div", NoHref, dpid, NoText, NoText, inner, NoText, FALSE, NoText, inner)

NameA1 == Txt("Lenor Geurbooster Orchidee", 26, "alpha")
NameA2 == Txt("Lenor Geurbooster (image link)", 30, "alpha")
NameB == Txt("Robijn Wasverzachter", 20, "alpha")
NameC == Txt("Ariel Pods", 10, "alpha")
ViewLabel == Txt("Bekijk product", 14, "deny")

ExtractElems ==
    { Link(ProductHref(Seg("lenor", 5), IdA), NameA1, NoText, NameA1),
      Link(ProductHref(Seg("lenor", 5), IdA), NoText, NameA2, NoText),
      Link(ProductHref(Seg("robijn", 6), IdB), NoText, NoText, NameB),
      Link(ProductHref(Seg("kort", 4), ShortId), NameC, NoText, NameC),
      Card(IdA, NameA2),
      Card(IdC, NameC),
      \* a product link that is itself a card of another identifier
      [Link(ProductHref(Seg("robijn", 6), IdB), NameB, NoText, NameB)
          EXCEPT !.dpid = IdC, !.inner = NameB],
      \* <a href=... aria-label="Robijn Wasverzachter">Bekijk product</a>
      [Link(ProductHref(Seg("robijn", 6), IdB), NoText, NoText, ViewLabel)
          EXCEPT !.aria = NameB] }

SeqsUpTo(S, n) == UNION {[1 .. k -> S] : k \in 0 .. n}

InitExtract ==
    /\ html \in SeqsUpTo(ExtractElems, MaxElems)
    /\ extracted = [done |-> FALSE, value |-> <<>>]

\* one _extract_products_from_html(html) call
Extract ==
    /\ ~extracted.done
    /\ extracted' = [done |-> TRUE, value |-> ExtractProductsFromHtml(html)]
    /\ UNCHANGED html

(***************************************************************************)
(* The ranking locator (find_product_ranking) and the two entry points     *)
(* that take a product URL.                                                *)
(***************************************************************************)
\* the default max_pages of find_product_ranking (50, line 443), scaled down:
\* the page loop is the same for every max_pages
DefaultMaxPages == 2

TargetId == DigSeg("9300000170626119", 16)
OtherId1 == DigSeg("9300000000000001", 16)
OtherId2 == DigSeg("9300000000000002", 16)

ScenarioLabels ==
    << "9300000000000001", "9300000000000002", "9300000000000003", "9300000000000004",
       "9300000000000005", "9300000000000006", "9300000000000007", "9300000000000008",
       "9300000170626119", "9300000000000010", "9300000000000011", "9300000000000012",
       "9300000000000013", "9300000000000014", "9300000000000015", "9300000000000016",
       "9300000000000017", "9300000000000018", "9300000000000019", "9300000000000020",
       "9300000000000021", "9300000000000022", "9300000000000023", "9300000000000024" >>

PageLink(id, name) == Link(ProductHref(Seg("slug", 4), id), name, NoText, name)

\* page 1 of the "Lenor" scenario: 24 product links, the target's the ninth
ScenarioPage ==
    [i \in 1 .. Len(ScenarioLabels) |->
        PageLink(DigSeg(ScenarioLabels[i], 16), Txt(ScenarioLabels[i], 16, "alpha"))]

PageElems ==
    { PageLink(TargetId, NameA1), PageLink(OtherId1, NameB), PageLink(OtherId2, NameC),
      \* a link to the target that no rule of the name chain names
      PageLink(TargetId, NoText) }

\* the markups a page fetch can return
PageMarkups == SeqsUpTo(PageElems, MaxPageElems) \cup {ScenarioPage}

\* "https://www.bol.com/nl/nl/p/<slug>/<tail...>"
ProductUrl(tail) ==
    Url(TRUE, <<Seg("https:", 6), EmptySeg, Seg("www.bol.com", 11), Seg("nl", 2),
                Seg("nl", 2), MarkerSeg, Seg("lenor-geurbooster", 17)>> \o tail)

\* the product URLs handed to the entry points: well-formed and malformed
ProductUrls ==
    { ProductUrl(<<TargetId, Seg("?cid=1758284946748", 18)>>),
      ProductUrl(<<TargetId, EmptySeg>>),
      \* the identifier ends the URL: no "/" follows it
      ProductUrl(<<TargetId>>),
      \* nine digits only
      ProductUrl(<<ShortId, EmptySeg>>),
      \* digits followed by other characters in the same segment
      ProductUrl(<<Seg("9300000170626119-x", 18), EmptySeg>>),
      \* no digits at all
      ProductUrl(<<EmptySeg>>) }

NoUrl == Url(FALSE, <<>>)

NoTarget ==
    [found |-> FALSE, page |-> Null, position_on_page |-> Null, page_product |-> Null]

\* for pos, product in enumerate(page_products, 1): if product.get("id") == target: ... break
MatchPositions(pageProducts, tid) ==
    {i \in 1 .. Len(pageProducts) : pageProducts[i].id = tid}

FirstMatch(pageProducts, tid) ==
    CHOOSE i \in MatchPositions(pageProducts, tid) :
        \A j \in MatchPositions(pageProducts, tid) : i <= j

\* target_info with the position on the page taken for the absolute position
PageTargetInfoOnPage(info, all, pageProducts, tid, pg) ==
    IF tid.n > 0 /\ MatchPositions(pageProducts, tid) # {}
    THEN [found |-> TRUE,
          page |-> Some(pg),
          position_on_page |-> Some(FirstMatch(pageProducts, tid)),
          page_product |-> Some(FirstMatch(pageProducts, tid))]
    ELSE info

\* target_info after one page (lines 257-268 and 339-350); all is the list
\* after products.extend(page_products)
PageTargetInfo(info, all, pageProducts, tid, pg) ==
    IF tid.n > 0 /\ MatchPositions(pageProducts, tid) # {}
    THEN [found |-> TRUE,
          page |-> Some(pg),
          position_on_page |-> Some(FirstMatch(pageProducts, tid)),
          page_product |-> Some(Len(all) - Len(pageProducts) + FirstMatch(pageProducts, tid))]
    ELSE info

\* what one Lightweight Fetch of a page can come to
MobileOutcomes ==
    [kind : {"status", "transport", "parse"}, markup : {<<>>}]
        \cup [kind : {"ok"}, markup : PageMarkups]

\* what one Rendered Fetch of a page can come to: a WebDriverException, or
\* another exception, from driver.get, the scroll script or the extraction
BrowserOutcomes ==
    [kind : {"wde", "error"}, markup : {<<>>}]
        \cup [kind : {"ok"}, markup : PageMarkups]

\* a page loop that absorbs transport errors only
MobileCatchesTransportOnly(kind) == kind = "transport"

\* except Exception, line 279: the exceptions the page loop of
\* search_products_mobile absorbs
MobileCatches(kind) == kind \in {"transport", "parse"}

\* except WebDriverException, line 360, and except Exception, line 363
BrowserCatches(kind) == kind \in {"wde", "error", "launch"}

LogEntry(pg, kind, count) == [page |-> pg, kind |-> kind, count |-> count]


\* the leftmost match of r'/p/([^/]+)/(\d{10,})/', line 196
SlugMatches(path) ==
    {k \in Enclosed(path) :
        /\ path[k] = MarkerSeg
        /\ k + 2 <= Len(path) - 1
        /\ path[k + 1].n > 0
        /\ path[k + 2].digits
        /\ path[k + 2].n >= MinIdDigits}

\* the parts the fallback of lines 207-214 accepts
NameParts(path) ==
    {k \in 1 .. Len(path) :
        /\ path[k].n > 5
        /\ ~path[k].digits
        /\ path[k].s \notin {"nl", "p", "www.bol.com", "https:", "http:"}}

\* slug.replace('-', ' ').title(), blanks collapsed and stripped
\* a slug of hyphens only: nothing is left of it after replace and strip
DashSeg == Seg("-", 1)

SlugName(seg) ==
    IF seg = DashSeg
    THEN [s |-> "", n |-> 0, pad |-> 0, cls |-> "slug"]
    ELSE [s |-> seg.s, n |-> seg.n, pad |-> 0, cls |-> "slug"]

ProductFromUrl == Txt("Product from URL", 16, "alpha")

\* _extract_name_from_url
ExtractNameFromUrl(url) ==
    IF SlugMatches(url.path) # {}
    THEN SlugName(url.path[1 + CHOOSE k \in SlugMatches(url.path) :
                                 \A j \in SlugMatches(url.path) : k <= j])
    ELSE IF NameParts(url.path) # {}
    THEN SlugName(url.path[CHOOSE k \in NameParts(url.path) :
                             \A j \in NameParts(url.path) : k <= j])
    ELSE ProductFromUrl

NoRanking == [done |-> FALSE, raised |-> FALSE, value |-> Null]

InitCallState ==
    /\ pc = "start"
    /\ page = 1
    /\ products = <<>>
    /\ targetInfo = NoTarget
    /\ browserProducts = <<>>
    /\ browserInfo = NoTarget
    /\ browserOpen = FALSE
    /\ browserRan = FALSE
    /\ fetchLog = [mobile |-> <<>>, browser |-> <<>>]
    /\ ranking = NoRanking
    /\ outcome = "pending"

InitLocateState ==
    /\ InitCallState
    /\ trackedRows = <<>>
    /\ historyRows = <<>>

InitLocate ==
    /\ hasSelenium \in BOOLEAN
    /\ \/ /\ caller = "locate"
          /\ productUrl = NoUrl
          /\ targetId = TargetId
          /\ maxPages \in 0 .. MaxPagesBound
       \/ /\ caller \in {"add", "track"}
          /\ productUrl \in ProductUrls
          /\ targetId = EmptySeg
          /\ maxPages = 0
    /\ InitLocateState

\* where the call goes once search_products_mobile has returned (line 451)
AfterMobile(info) == IF info.found THEN "build" ELSE "fallback"

\* an exception leaves find_product_ranking
LocateRaises ==
    /\ ranking' = [done |-> TRUE, raised |-> TRUE, value |-> Null]
    /\ pc' = IF caller = "locate" THEN "done" ELSE "post"
    /\ outcome' = IF caller = "locate" THEN "raised" ELSE outcome

\* find_product_ranking(keyword, target_product_id, max_pages) called directly
LocateStart ==
    /\ pc = "start"
    /\ caller = "locate"
    /\ pc' = IF maxPages >= 1 THEN "mobile" ELSE AfterMobile(targetInfo)
    /\ UNCHANGED <<caller, productUrl, targetId, maxPages, hasSelenium, page, products,
                   targetInfo, browserProducts, browserInfo, browserOpen, browserRan,
                   fetchLog, ranking, outcome, trackedRows, historyRows>>

\* for page in range(1, max_pages + 1): the page after pg
NextPage(pg) == pg + 1

\* a page loop without the break of lines 272-273
MobileStopsAtEnd(info, pg, maxp) == pg >= maxp

\* whether the loop of search_products_mobile ends after a fetched page:
\* the break of lines 272-273, or the range is used up
MobileStops(info, pg, maxp) == info.found \/ pg >= maxp

\* whether the loop of search_products_browser ends after a fetched page:
\* the breaks of lines 354-359, or the range is used up
BrowserStops(info, pp, pg, maxp) == info.found \/ Len(pp) = 0 \/ pg >= maxp

\* an accumulation that leaves out the identifiers the list already holds
ExtendUnseen(list, pageProducts) ==
    list \o SelectSeq(pageProducts, LAMBDA r : r.id \notin Ids(list))

\* products.extend(page_products), lines 255 and 337
Extend(list, pageProducts) == list \o pageProducts

\* a page loop that goes on with the next page after an exception
MobileBreaksOnStatusOnly(kind) == kind = "status"

\* the break of line 277 (a status other than 200) and of line 281 (an
\* exception): the failures of a page that end the loop
MobileBreaksOn(kind) == kind \in {"status", "transport", "parse"}

\* pc and page after a failed fetch of page pg
MobileAfterFailure(kind, info, pg, maxp) ==
    IF MobileBreaksOn(kind) \/ pg >= maxp
    THEN [pc |-> AfterMobile(info), page |-> pg]
    ELSE [pc |-> "mobile", page |-> NextPage(pg)]

\* one iteration of the page loop of search_products_mobile (lines 241-281)
MobilePage ==
    /\ pc = "mobile"
    /\ \E out \in MobileOutcomes :
        LET pp == ExtractProductsFromHtml(out.markup)
            all == Extend(products, pp)
            info == PageTargetInfo(targetInfo, all, pp, targetId, page)
        IN  CASE out.kind = "ok" ->
                   /\ products' = all
                   /\ targetInfo' = info
                   /\ fetchLog' = [fetchLog EXCEPT
                          !.mobile = Append(@, LogEntry(page, "ok", Len(pp)))]
                   /\ IF MobileStops(info, page, maxPages)
                      THEN pc' = AfterMobile(info) /\ page' = page
                      ELSE pc' = "mobile" /\ page' = NextPage(page)
                   /\ UNCHANGED <<ranking, outcome>>
              [] out.kind = "status" ->
                   /\ fetchLog' = [fetchLog EXCEPT
                          !.mobile = Append(@, LogEntry(page, out.kind, 0))]
                   /\ pc' = MobileAfterFailure(out.kind, targetInfo, page, maxPages).pc
                   /\ page' = MobileAfterFailure(out.kind, targetInfo, page, maxPages).page
                   /\ UNCHANGED <<products, targetInfo, ranking, outcome>>
              [] OTHER ->
                   /\ fetchLog' = [fetchLog EXCEPT
                          !.mobile = Append(@, LogEntry(page, out.kind, 0))]
                   /\ UNCHANGED <<products, targetInfo>>
                   /\ IF MobileCatches(out.kind)
                      THEN /\ pc' = MobileAfterFailure(out.kind, targetInfo, page, maxPages).pc
                           /\ page' = MobileAfterFailure(out.kind, targetInfo, page, maxPages).page
                           /\ UNCHANGED <<ranking, outcome>>
                      ELSE LocateRaises /\ UNCHANGED page
    /\ UNCHANGED <<caller, productUrl, targetId, maxPages, hasSelenium, browserProducts,
                   browserInfo, browserOpen, browserRan, trackedRows, historyRows>>

\* search_products_browser is called (line 453): unavailable (lines 290-292),
\* or Chrome is launched (line 310)
BrowserCall ==
    /\ pc = "fallback"
    /\ browserRan' = TRUE
    /\ browserProducts' = <<>>
    /\ browserInfo' = NoTarget
    /\ IF ~hasSelenium
       THEN pc' = "build" /\ UNCHANGED <<browserOpen, ranking, outcome>>
       ELSE \E launched \in BOOLEAN :
              IF launched
              THEN /\ browserOpen' = (maxPages >= 1)
                   /\ pc' = IF maxPages >= 1 THEN "browser" ELSE "build"
                   /\ UNCHANGED <<ranking, outcome>>
              ELSE /\ UNCHANGED browserOpen
                   /\ IF BrowserCatches("launch")
                      THEN pc' = "build" /\ UNCHANGED <<ranking, outcome>>
                      ELSE LocateRaises
    /\ page' = 1
    /\ UNCHANGED <<caller, productUrl, targetId, maxPages, hasSelenium, products,
                   targetInfo, fetchLog, trackedRows, historyRows>>

\* a browser that is quit only when the page loop ends without an exception
ReleasesBrowserOnSuccess(kind) == kind = "ok"

\* whether the with-block of line 310 quits the browser when the block is left
ReleasesBrowser(kind) == TRUE

\* one iteration of the page loop of search_products_browser (lines 311-362)
BrowserPage ==
    /\ pc = "browser"
    /\ \E out \in BrowserOutcomes :
        LET pp == ExtractProductsFromHtml(out.markup)
            all == Extend(browserProducts, pp)
            info == PageTargetInfo(browserInfo, all, pp, targetId, page)
        IN  CASE out.kind = "ok" ->
                   /\ browserProducts' = all
                   /\ browserInfo' = info
                   /\ fetchLog' = [fetchLog EXCEPT
                          !.browser = Append(@, LogEntry(page, "ok", Len(pp)))]
                   /\ IF BrowserStops(info, pp, page, maxPages)
                      THEN /\ pc' = "build"
                           /\ page' = page
                           /\ browserOpen' = ~ReleasesBrowser(out.kind)
                      ELSE /\ pc' = "browser"
                           /\ page' = NextPage(page)
                           /\ UNCHANGED browserOpen
                   /\ UNCHANGED <<ranking, outcome>>
              [] OTHER ->
                   /\ fetchLog' = [fetchLog EXCEPT
                          !.browser = Append(@, LogEntry(page, out.kind, 0))]
                   /\ browserOpen' = ~ReleasesBrowser(out.kind)
                   /\ UNCHANGED <<browserProducts, browserInfo, page>>
                   /\ IF BrowserCatches(out.kind)
                      THEN pc' = "build" /\ UNCHANGED <<ranking, outcome>>
                      ELSE LocateRaises
    /\ UNCHANGED <<caller, productUrl, targetId, maxPages, hasSelenium, products,
                   targetInfo, browserRan, trackedRows, historyRows>>


\* a fallback whose results are never taken, and one whose results are always taken
BrowserNeverReplaces(bp) == FALSE
BrowserAlwaysReplaces(bp) == TRUE

\* if len(browser_products) > 0, line 454
BrowserReplaces(bp) == Len(bp) > 0

\* products and target_info after lines 448-456
MergedProducts ==
    IF browserRan /\ BrowserReplaces(browserProducts) THEN browserProducts ELSE products

MergedInfo ==
    IF browserRan /\ BrowserReplaces(browserProducts) THEN browserInfo ELSE targetInfo

\* a lookup that takes the head of the list for the target's record
TargetProductFirst(list, tid) == IF list = <<>> THEN Null ELSE Some(list[1])

\* for product in products: if product["id"] == target_product_id: ... break
TargetProduct(list, tid) ==
    IF MatchPositions(list, tid) = {} THEN Null ELSE Some(list[FirstMatch(list, tid)])

\* the dict find_product_ranking returns (lines 459-483)
RankingResult(list, info, tid) ==
    IF info.found
    THEN [position |-> info.position_on_page,
          page_product |-> info.page_product,
          page |-> info.page,
          product |-> TargetProduct(list, tid),
          total_found |-> Len(list)]
    ELSE [position |-> Null, page_product |-> Null, page |-> Null, product |-> Null,
          total_found |-> Len(list)]

\* find_product_ranking returns (lines 458-483)
Build ==
    /\ pc = "build"
    /\ ranking' = [done |-> TRUE, raised |-> FALSE,
                   value |-> Some(RankingResult(MergedProducts, MergedInfo, targetId))]
    /\ pc' = IF caller = "locate" THEN "done" ELSE "post"
    /\ outcome' = IF caller = "locate" THEN "returned" ELSE outcome
    /\ UNCHANGED <<caller, productUrl, targetId, maxPages, hasSelenium, page, products,
                   targetInfo, browserProducts, browserInfo, browserOpen, browserRan,
                   fetchLog, trackedRows, historyRows>>

(***************************************************************************)
(* The two tables.  The tracker's clock (naive datetime.now()) is counted   *)
(* in ticks, several to a second; a stored timestamp holds whole seconds.   *)
(***************************************************************************)
\* ticks of the tracker's clock in a second
TicksPerSecond == 2

\* _now_str at tick t: strftime("%Y-%m-%d %H:%M:%S") drops what is below a second
NowStr(t) == [fmt |-> "full", secs |-> t \div TicksPerSecond]

\* _parse_dt: the two formats of line 38, else datetime.now()
ParseDt(str, now) ==
    IF str.fmt \in {"full", "date"} THEN str.secs * TicksPerSecond ELSE now

\* values of column stop_after_days: NULL, a number of days, or a text that
\* is no number (the API stores the JSON value it was sent)
Days(n) == Some([int |-> TRUE, n |-> n])
NotANumber == Some([int |-> FALSE, n |-> 0])
StopAfterInputs == {Null, Days(1), NotANumber}

Keywords == <<"Lenor", "Robijn", "Ariel", "Dreft">>

\* a row of tracked_products; active and daily_scheduler as INSERTed by
\* line 126 (active 1, daily_scheduler the column default 0)
TrackedRow(id, keyword, pid, url, name, created, stopAfter) ==
    [id |-> id, keyword |-> keyword, product_id |-> pid, product_url |-> url,
     product_name |-> name, active |-> TRUE, created_at |-> created,
     stop_after_days |-> stopAfter, daily_scheduler |-> FALSE]

\* a row of product_tracking, as save_to_db INSERTs it
HistoryRow(keyword, pid, name, position, pageProduct) ==
    [keyword |-> keyword, product_id |-> pid, product_name |-> name,
     position |-> position, page_product |-> pageProduct]

\* add_tracked_product up to its locate call (lines 104-113); the ValueError of
\* get_product_id leaves the function
AddStart ==
    /\ pc = "start"
    /\ caller = "add"
    /\ LET r == get_product_id(productUrl)
       IN  IF r.ok
           THEN /\ targetId' = r.id
                /\ maxPages' = 1
                /\ pc' = "mobile"
                /\ UNCHANGED outcome
           ELSE /\ outcome' = "raised_value_error"
                /\ pc' = "done"
                /\ UNCHANGED <<targetId, maxPages>>
    /\ UNCHANGED <<caller, productUrl, hasSelenium, page, products, targetInfo,
                   browserProducts, browserInfo, browserOpen, browserRan, fetchLog,
                   ranking, trackedRows, historyRows>>

\* result.get("product") and result["product"].get("name") and name != "Unknown Product"
HasBetterName(rk) ==
    /\ ~rk.raised
    /\ rk.value[1].product # Null
    /\ Present(rk.value[1].product[1].name)
    /\ rk.value[1].product[1].name # UnknownProduct

\* add_tracked_product after its locate call (lines 114-134); the INSERT may fail
AddFinish ==
    /\ pc = "post"
    /\ caller = "add"
    /\ \E stored \in BOOLEAN, stopAfter \in StopAfterInputs :
          IF stored
          THEN /\ trackedRows' = Append(trackedRows,
                      TrackedRow(Len(trackedRows) + 1, Keywords[1], targetId, productUrl,
                                 IF HasBetterName(ranking)
                                 THEN ranking.value[1].product[1].name
                                 ELSE ExtractNameFromUrl(productUrl),
                                 NowStr(trackerNow), stopAfter))
               /\ outcome' = "returned"
          ELSE /\ UNCHANGED trackedRows
               /\ outcome' = "raised"
    /\ pc' = "done"
    /\ UNCHANGED <<caller, productUrl, targetId, maxPages, hasSelenium, page, products,
                   targetInfo, browserProducts, browserInfo, browserOpen, browserRan,
                   fetchLog, ranking, historyRows>>

\* track_product up to its locate call (lines 487-497); the except of line 513
\* turns the ValueError of get_product_id into a None return
TrackStart ==
    /\ pc = "start"
    /\ caller = "track"
    /\ LET r == get_product_id(productUrl)
       IN  IF r.ok
           THEN /\ targetId' = r.id
                /\ maxPages' = DefaultMaxPages
                /\ pc' = "mobile"
                /\ UNCHANGED outcome
           ELSE /\ outcome' = "returned_none"
                /\ pc' = "done"
                /\ UNCHANGED <<targetId, maxPages>>
    /\ UNCHANGED <<caller, productUrl, hasSelenium, page, products, targetInfo,
                   browserProducts, browserInfo, browserOpen, browserRan, fetchLog,
                   ranking, trackedRows, historyRows>>

UnknownName == Txt("Unknown", 7, "alpha")

\* track_product after its locate call (lines 499-515); the INSERT may fail
TrackFinish ==
    /\ pc = "post"
    /\ caller = "track"
    /\ IF ranking.raised
       THEN outcome' = "returned_none" /\ UNCHANGED historyRows
       ELSE \E stored \in BOOLEAN :
              IF stored
              THEN /\ historyRows' = Append(historyRows,
                          HistoryRow(Keywords[1], targetId,
                                     IF ranking.value[1].product # Null
                                     THEN ranking.value[1].product[1].name
                                     ELSE UnknownName,
                                     ranking.value[1].position,
                                     ranking.value[1].page_product))
                   /\ outcome' = "returned"
              ELSE /\ UNCHANGED historyRows
                   /\ outcome' = "returned_none"
    /\ pc' = "done"
    /\ UNCHANGED <<caller, productUrl, targetId, maxPages, hasSelenium, page, products,
                   targetInfo, browserProducts, browserInfo, browserOpen, browserRan,
                   fetchLog, ranking, trackedRows>>


(***************************************************************************)
(* Wall-clock arithmetic of the scheduler.  Instants are seconds since     *)
(* 2026-01-01T00:00:00Z.  An aware datetime is [wall, off]: its wall-clock *)
(* reading in seconds since 2026-01-01T00:00:00 and the UTC offset of its  *)
(* tzinfo.  replace() and + timedelta change the reading and keep the      *)
(* tzinfo, as datetime does.                                               *)
(***************************************************************************)
Day == 24 * 3600

\* replace(hour=9, ...)
TriggerHour == 9

\* Europe/Amsterdam in 2026: CEST from 2026-03-29T01:00Z to 2026-10-25T01:00Z
SpringForward == 87 * Day + 3600
FallBack == 297 * Day + 3600

\* the UTC offset pytz.timezone('Europe/Amsterdam') gives the instant t
UtcOffset(t) == IF t >= SpringForward /\ t < FallBack THEN 7200 ELSE 3600

\* datetime.now(self.dutch_tz) at instant t
NowDutch(t) == [wall |-> t + UtcOffset(t), off |-> UtcOffset(t)]

\* dt.replace(hour=9, minute=0, second=0, microsecond=0)
AtTriggerHour(dt) == [dt EXCEPT !.wall = (dt.wall \div Day) * Day + TriggerHour * 3600]

\* dt + timedelta(days=d)
PlusDays(dt, d) == [dt EXCEPT !.wall = dt.wall + d * Day]

\* the instant an aware datetime denotes; comparison and subtraction of aware
\* datetimes go by it
Instant(dt) == dt.wall - dt.off

\* now_dutch >= today_9am, line 77
AlreadyPast(now, today9) == Instant(now) >= Instant(today9)

\* _get_next_run_time at instant t
GetNextRunTime(t) ==
    LET now == NowDutch(t)
        today9 == AtTriggerHour(now)
    IN  IF AlreadyPast(now, today9)
        THEN AtTriggerHour(PlusDays(now, 1))
        ELSE today9

\* the instants datetime.now() is sampled at: each hour of the days around the
\* two changes of offset and of an ordinary day, a second before, on and after it
ClockSamples ==
    {d * Day + h * 3600 + s :
        d \in {86, 87, 88, 150, 296, 297, 298}, h \in 0 .. 23, s \in {-1, 0, 1}}

InitClock ==
    /\ nowUtc \in ClockSamples
    /\ nextRun = [done |-> FALSE, value |-> NowDutch(0)]

\* one _get_next_run_time() call (also behind get_scheduler_status)
QueryNextRun ==
    /\ ~nextRun.done
    /\ nextRun' = [done |-> TRUE, value |-> GetNextRunTime(nowUtc)]
    /\ UNCHANGED nowUtc

(***************************************************************************)
(* The scheduler: start_scheduler, stop_scheduler and the background       *)
(* threads running _scheduler_loop.  API calls are made one after another; *)
(* the threads run concurrently with them.  The clock advances by the      *)
(* hour.                                                                   *)
(***************************************************************************)
\* threads created in one run of the model
MaxThreads == 2
\* hours the clock advances in one run of the model
MaxTicks == 3

\* join(timeout=5)
JoinTimeout == 5
\* time.sleep(3600)
BackoffSeconds == 3600

\* the instants a run of the model starts at
StartClocks == {150 * Day + 5 * 3600, 150 * Day + 6 * 3600}

\* errAt notes when the last exception was caught by line 64, died that an
\* exception left _scheduler_loop
NewThread ==
    [pc |-> "top", wakeAt |-> 0, nextRun |-> 0, stopSeen |-> FALSE,
     errAt |-> Null, died |-> FALSE]

Alive(t) == threads[t].pc # "exited"

ThreadIds == 1 .. Len(threads)

InitSched ==
    /\ running = FALSE
    /\ schedulerThread = Null
    /\ threads = <<>>
    /\ clock \in StartClocks
    /\ api = "idle"
    /\ batchLog = <<>>

\* start_scheduler (lines 25-34)
StartScheduler ==
    /\ api = "idle"
    /\ IF running
       THEN UNCHANGED <<running, schedulerThread, threads>>
       ELSE /\ Len(threads) < MaxThreads
            /\ running' = TRUE
            /\ threads' = Append(threads, NewThread)
            /\ schedulerThread' = Some(Len(threads) + 1)
    /\ UNCHANGED <<clock, api, batchLog>>

\* stop_scheduler up to its join (lines 38-40); stopSeen notes, for each thread
\* asleep until its next run, that a stop was called during that sleep
StopScheduler ==
    /\ api = "idle"
    /\ running' = FALSE
    /\ threads' = [t \in ThreadIds |->
                     IF threads[t].pc = "sleeping"
                     THEN [threads[t] EXCEPT !.stopSeen = TRUE]
                     ELSE threads[t]]
    /\ api' = IF schedulerThread # Null THEN "joining" ELSE "idle"
    /\ UNCHANGED <<schedulerThread, clock, batchLog>>

\* whether join(timeout=5) can time out on a thread: it is in a wait or a batch
\* run that lasts longer than the timeout
OutlastsJoin(th) ==
    \/ th.pc \in {"sleeping", "backoff"} /\ th.wakeAt > clock + JoinTimeout
    \/ th.pc = "batch"

\* the join of line 40 returns: the thread has ended, or the timeout elapsed
JoinReturns ==
    /\ api = "joining"
    /\ \/ ~Alive(schedulerThread[1])
       \/ OutlastsJoin(threads[schedulerThread[1]])
    /\ api' = "idle"
    /\ UNCHANGED <<running, schedulerThread, threads, clock, batchLog>>

\* while self.running, line 45
LoopCheck(t) ==
    /\ threads[t].pc = "top"
    /\ threads' = [threads EXCEPT ![t].pc = IF running THEN "compute" ELSE "exited"]
    /\ UNCHANGED <<running, schedulerThread, clock, api, batchLog>>

\* lines 48-59: the next run is computed and the thread goes to sleep
LoopCompute(t) ==
    /\ threads[t].pc = "compute"
    /\ LET next == GetNextRunTime(clock)
           seconds == Instant(next) - Instant(NowDutch(clock))
       IN  threads' = [threads EXCEPT ![t] =
                         [pc |-> IF seconds > 0 THEN "sleeping" ELSE "woke",
                          wakeAt |-> clock + seconds,
                          nextRun |-> Instant(next),
                          stopSeen |-> FALSE,
                          errAt |-> Null,
                          died |-> FALSE]]
    /\ UNCHANGED <<running, schedulerThread, clock, api, batchLog>>

\* a loop without exception handlers
LoopCatchesNothing(where) == FALSE

\* the handlers an exception meets: except Exception of line 64 around the loop
\* body ("body"), except Exception of line 109 inside _run_daily_checks ("batch")
LoopCatches(where) == where \in {"body", "batch"}

\* the thread after an exception reached the loop body at line 64: it is
\* logged and the thread sleeps for an hour (lines 65-67)
AfterLoopError(th) ==
    IF LoopCatches("body")
    THEN [th EXCEPT !.pc = "backoff", !.wakeAt = clock + BackoffSeconds,
                    !.errAt = Some(clock)]
    ELSE [th EXCEPT !.pc = "exited", !.died = TRUE]

\* an exception is raised by lines 48-59 (the arithmetic, the logging, the sleep)
LoopError(t) ==
    /\ threads[t].pc = "compute"
    /\ threads' = [threads EXCEPT ![t] = AfterLoopError(@)]
    /\ UNCHANGED <<running, schedulerThread, clock, api, batchLog>>

\* time.sleep returns
LoopWake(t) ==
    /\ threads[t].pc \in {"sleeping", "backoff"}
    /\ clock >= threads[t].wakeAt
    /\ threads' = [threads EXCEPT ![t].pc = IF @ = "sleeping" THEN "woke" ELSE "top"]
    /\ UNCHANGED <<running, schedulerThread, clock, api, batchLog>>

\* if self.running: self._run_daily_checks(), lines 61-62
LoopRecheck(t) ==
    /\ threads[t].pc = "woke"
    /\ IF running
       THEN /\ threads' = [threads EXCEPT ![t].pc = "batch"]
            /\ batchLog' = Append(batchLog, <<t, threads[t].nextRun>>)
       ELSE /\ threads' = [threads EXCEPT ![t].pc = "top"]
            /\ UNCHANGED batchLog
    /\ UNCHANGED <<running, schedulerThread, clock, api>>

\* _run_daily_checks ends (lines 85-110): run_scheduled_checks returned, or it
\* raised and line 109 caught the exception
LoopBatchDone(t) ==
    /\ threads[t].pc = "batch"
    /\ \E failed \in BOOLEAN :
          threads' = [threads EXCEPT ![t] =
                        IF failed /\ ~LoopCatches("batch")
                        THEN AfterLoopError(@)
                        ELSE [@ EXCEPT !.pc = "top"]]
    /\ UNCHANGED <<running, schedulerThread, clock, api, batchLog>>

\* an hour passes
Tick ==
    /\ \E c0 \in StartClocks : clock + 3600 <= c0 + MaxTicks * 3600
    /\ clock' = clock + 3600
    /\ UNCHANGED <<running, schedulerThread, threads, api, batchLog>>

(***************************************************************************)
(* The batch routine run_scheduled_checks (lines 550-598), on a table of   *)
(* tracked products as add_tracked_product, toggle_daily_scheduler and     *)
(* remove_tracked_product leave it.                                        *)
(***************************************************************************)
\* most rows of tracked_products
MaxRows == 2

\* the tick the rows were created at: the last one of second 0
CreationTick == TicksPerSecond - 1

\* the tick one-day rows expire at
ExpiryTick == ParseDt(NowStr(CreationTick), 0) + Day * TicksPerSecond

\* "https://www.bol.com/nl/nl/p/-/9300000170626119/": add_tracked_product
\* stores the empty name for it when page 1 names the product no better
DashUrl ==
    Url(TRUE, <<Seg("https:", 6), EmptySeg, Seg("www.bol.com", 11), Seg("nl", 2),
                Seg("nl", 2), MarkerSeg, DashSeg, TargetId, EmptySeg>>)

\* what distinguishes the rows of the table: [active, daily_scheduler,
\* stop_after_days, product_name]
RowKinds ==
    { [active |-> TRUE, daily_scheduler |-> TRUE, stop_after_days |-> Days(1), product_name |-> NameA2],
      [active |-> TRUE, daily_scheduler |-> TRUE, stop_after_days |-> Null, product_name |-> NameA2],
      [active |-> TRUE, daily_scheduler |-> TRUE, stop_after_days |-> Null,
       product_name |-> ExtractNameFromUrl(DashUrl)],
      [active |-> TRUE, daily_scheduler |-> TRUE, stop_after_days |-> NotANumber, product_name |-> NameA2],
      [active |-> TRUE, daily_scheduler |-> FALSE, stop_after_days |-> Days(1), product_name |-> NameA2],
      [active |-> FALSE, daily_scheduler |-> TRUE, stop_after_days |-> Days(1), product_name |-> NameA2] }

\* the table whose i-th row is of the i-th kind; ids are 1, 2, ... (AUTOINCREMENT)
TableOf(kinds) ==
    [i \in 1 .. Len(kinds) |->
        [TrackedRow(i, Keywords[i], TargetId,
                    IF Present(kinds[i].product_name)
                    THEN ProductUrl(<<TargetId, EmptySeg>>) ELSE DashUrl,
                    kinds[i].product_name, NowStr(CreationTick), kinds[i].stop_after_days)
            EXCEPT !.active = kinds[i].active,
                   !.daily_scheduler = kinds[i].daily_scheduler]]

InitBatch ==
    /\ \E kinds \in SeqsUpTo(RowKinds, MaxRows) : trackedRows = TableOf(kinds)
    /\ historyRows = <<>>
    /\ trackerNow = ExpiryTick - TicksPerSecond
    /\ batchPc = "idle"
    /\ rows = <<>>
    /\ idx = 1
    /\ results = <<>>
    /\ batchRuns = 0

\* an expiry test that asks for a time after the expiry instant
ExpiredAfter(now, created, stopAfter) ==
    now > ParseDt(created, now) + stopAfter.n * Day * TicksPerSecond

\* datetime.now() >= start_dt + timedelta(days=int(stop_after_days)), lines 563-564
Expired(now, created, stopAfter) ==
    now >= ParseDt(created, now) + stopAfter.n * Day * TicksPerSecond

\* int(stop_after_days) raises ValueError, line 564
ExpiryRaises(stopAfter) == ~stopAfter.int

\* the page a locate call of the batch gets: without the target, with the
\* target named, with the target and no usable name
BatchPages(pid) == {<<>>, <<PageLink(pid, NameA1)>>, <<PageLink(pid, NoText)>>}

\* the dict find_product_ranking returns when its search fetched that one page
RankingOf(markup, pid) ==
    LET pp == ExtractProductsFromHtml(markup)
    IN  RankingResult(pp, PageTargetInfo(NoTarget, Extend(<<>>, pp), pp, pid, 1), pid)

\* not name_to_store or name_to_store == "None", line 574
StoredNameMissing(name) == ~Present(name) \/ name.s = "None"

\* name_to_store, lines 573-579
NameToStore(row, r) ==
    IF r.product # Null /\ Present(r.product[1].name) /\ r.product[1].name # UnknownProduct
    THEN r.product[1].name
    ELSE IF StoredNameMissing(row.product_name)
    THEN ExtractNameFromUrl(row.product_url)
    ELSE row.product_name

\* if not product_name and ranking.get("product"), line 583
Backfills(row, r) == ~Present(row.product_name) /\ r.product # Null

\* an entry of results; at notes the tick it was made at
ResultEntry(row, kind, position) ==
    [id |-> row.id, kind |-> kind, position |-> position, at |-> trackerNow]

\* the SELECT of lines 555-559: active, schedule-enabled rows by ascending id
BatchStart ==
    /\ batchPc = "idle"
    /\ rows' = SelectSeq(trackedRows, LAMBDA r : r.active /\ r.daily_scheduler)
    /\ idx' = 1
    /\ results' = <<>>
    /\ batchPc' = "loop"
    /\ batchRuns' = batchRuns + 1
    /\ UNCHANGED <<trackerNow, trackedRows, historyRows>>

\* an exception leaves run_scheduled_checks
BatchRaises ==
    /\ batchPc' = "raised"
    /\ UNCHANGED <<idx, results, trackedRows, historyRows>>

\* one iteration of the for loop (lines 560-597); each store write may fail
BatchEntry ==
    /\ batchPc = "loop"
    /\ idx <= Len(rows)
    /\ LET row == rows[idx]
           stopAfter == row.stop_after_days
       IN  IF stopAfter # Null /\ ExpiryRaises(stopAfter[1])
           THEN BatchRaises
           ELSE IF stopAfter # Null /\ Expired(trackerNow, row.created_at, stopAfter[1])
           THEN \E removed \in BOOLEAN :
                  IF removed
                  THEN /\ trackedRows' = [trackedRows EXCEPT ![row.id].active = FALSE]
                       /\ results' = Append(results,
                              ResultEntry(row, "deactivated_expired", Null))
                       /\ idx' = idx + 1
                       /\ UNCHANGED <<batchPc, historyRows>>
                  ELSE BatchRaises
           ELSE \E markup \in BatchPages(row.product_id), saved, updated \in BOOLEAN :
                  LET r == RankingOf(markup, row.product_id)
                      wrote == saved /\ (Backfills(row, r) => updated)
                  IN  /\ historyRows' =
                             IF saved
                             THEN Append(historyRows,
                                         HistoryRow(row.keyword, row.product_id,
                                                    NameToStore(row, r), r.position,
                                                    r.page_product))
                             ELSE historyRows
                      /\ trackedRows' =
                             IF saved /\ Backfills(row, r) /\ updated
                             THEN [trackedRows EXCEPT
                                      ![row.id].product_name = r.product[1].name]
                             ELSE trackedRows
                      /\ results' = Append(results,
                             ResultEntry(row, IF wrote THEN "checked" ELSE "error",
                                         IF wrote THEN r.position ELSE Null))
                      /\ idx' = idx + 1
                      /\ UNCHANGED batchPc
    /\ UNCHANGED <<trackerNow, rows, batchRuns>>

\* return results, line 598
BatchReturn ==
    /\ batchPc = "loop"
    /\ idx > Len(rows)
    /\ batchPc' = "done"
    /\ UNCHANGED <<trackerNow, rows, idx, results, batchRuns, trackedRows, historyRows>>

\* the tracker's clock moves on by a tick
BatchTick ==
    /\ trackerNow <= ExpiryTick
    /\ trackerNow' = trackerNow + 1
    /\ UNCHANGED <<batchPc, rows, idx, results, batchRuns, trackedRows, historyRows>>

\* most run_scheduled_checks calls in one run of the model
MaxBatchRuns == 2

\* the routine is called again (the next day's trigger, POST /api/run-now)
BatchAgain ==
    /\ batchPc \in {"done", "raised"}
    /\ batchRuns < MaxBatchRuns
    /\ batchPc' = "idle"
    /\ UNCHANGED <<trackerNow, rows, idx, results, batchRuns, trackedRows, historyRows>>

(***************************************************************************)
(* Specifications.                                                         *)
(***************************************************************************)
IdleExtract == html = <<>> /\ extracted = [done |-> TRUE, value |-> <<>>]

IdleCall ==
    /\ caller = "none"
    /\ productUrl = NoUrl
    /\ targetId = EmptySeg
    /\ maxPages = 0
    /\ hasSelenium = FALSE
    /\ InitCallState

IdleLocate == IdleCall /\ trackedRows = <<>> /\ historyRows = <<>>

IdleBatch ==
    /\ trackerNow = 0
    /\ batchPc = "off"
    /\ rows = <<>>
    /\ idx = 0
    /\ results = <<>>
    /\ batchRuns = 0

IdleSched ==
    /\ running = FALSE
    /\ schedulerThread = Null
    /\ threads = <<>>
    /\ clock = 0
    /\ api = "off"
    /\ batchLog = <<>>

IdleClock == nowUtc = 0 /\ nextRun = [done |-> TRUE, value |-> NowDutch(0)]

\* find_product_ranking and the entry points that take a product URL
Init == InitLocate /\ IdleExtract /\ IdleSched /\ IdleClock /\ IdleBatch

Next ==
    \/ LocateStart /\ UNCHANGED <<extractVars, schedVars, clockVars, batchVars>>
    \/ AddStart /\ UNCHANGED <<extractVars, schedVars, clockVars, batchVars>>
    \/ TrackStart /\ UNCHANGED <<extractVars, schedVars, clockVars, batchVars>>
    \/ MobilePage /\ UNCHANGED <<extractVars, schedVars, clockVars, batchVars>>
    \/ BrowserCall /\ UNCHANGED <<extractVars, schedVars, clockVars, batchVars>>
    \/ BrowserPage /\ UNCHANGED <<extractVars, schedVars, clockVars, batchVars>>
    \/ Build /\ UNCHANGED <<extractVars, schedVars, clockVars, batchVars>>
    \/ AddFinish /\ UNCHANGED <<extractVars, schedVars, clockVars, batchVars>>
    \/ TrackFinish /\ UNCHANGED <<extractVars, schedVars, clockVars, batchVars>>

Spec == Init /\ [][Next]_vars

\* the extractor on its own
NextExtract == Extract /\ UNCHANGED <<locateVars, schedVars, clockVars, batchVars>>

InitExtractSpec == InitExtract /\ IdleLocate /\ IdleSched /\ IdleClock /\ IdleBatch

SpecExtract == InitExtractSpec /\ [][NextExtract]_vars

\* the scheduler
NextSched ==
    \/ StartScheduler /\ UNCHANGED <<extractVars, locateVars, clockVars, batchVars>>
    \/ StopScheduler /\ UNCHANGED <<extractVars, locateVars, clockVars, batchVars>>
    \/ JoinReturns /\ UNCHANGED <<extractVars, locateVars, clockVars, batchVars>>
    \/ Tick /\ UNCHANGED <<extractVars, locateVars, clockVars, batchVars>>
    \/ (\E t \in ThreadIds : LoopCheck(t)) /\ UNCHANGED <<extractVars, locateVars, clockVars, batchVars>>
    \/ (\E t \in ThreadIds : LoopCompute(t)) /\ UNCHANGED <<extractVars, locateVars, clockVars, batchVars>>
    \/ (\E t \in ThreadIds : LoopError(t)) /\ UNCHANGED <<extractVars, locateVars, clockVars, batchVars>>
    \/ (\E t \in ThreadIds : LoopWake(t)) /\ UNCHANGED <<extractVars, locateVars, clockVars, batchVars>>
    \/ (\E t \in ThreadIds : LoopRecheck(t)) /\ UNCHANGED <<extractVars, locateVars, clockVars, batchVars>>
    \/ (\E t \in ThreadIds : LoopBatchDone(t)) /\ UNCHANGED <<extractVars, locateVars, clockVars, batchVars>>

InitSchedSpec == InitSched /\ IdleExtract /\ IdleLocate /\ IdleClock /\ IdleBatch

SpecSched == InitSchedSpec /\ [][NextSched]_vars

\* the batch routine
NextBatch ==
    \/ BatchStart /\ UNCHANGED <<extractVars, callVars, schedVars, clockVars>>
    \/ BatchEntry /\ UNCHANGED <<extractVars, callVars, schedVars, clockVars>>
    \/ BatchReturn /\ UNCHANGED <<extractVars, callVars, schedVars, clockVars>>
    \/ BatchTick /\ UNCHANGED <<extractVars, callVars, schedVars, clockVars>>

InitBatchSpec == InitBatch /\ IdleExtract /\ IdleCall /\ IdleSched /\ IdleClock

SpecBatch == InitBatchSpec /\ [][NextBatch]_vars

\* batch runs one after another
NextBatches ==
    \/ BatchStart /\ UNCHANGED <<extractVars, callVars, schedVars, clockVars>>
    \/ BatchEntry /\ UNCHANGED <<extractVars, callVars, schedVars, clockVars>>
    \/ BatchReturn /\ UNCHANGED <<extractVars, callVars, schedVars, clockVars>>
    \/ BatchTick /\ UNCHANGED <<extractVars, callVars, schedVars, clockVars>>
    \/ BatchAgain /\ UNCHANGED <<extractVars, callVars, schedVars, clockVars>>

InitBatchesSpec == InitBatch /\ IdleExtract /\ IdleCall /\ IdleSched /\ IdleClock

SpecBatches == InitBatchesSpec /\ [][NextBatches]_vars

\* the next-run arithmetic on its own
NextClock == QueryNextRun /\ UNCHANGED <<extractVars, locateVars, schedVars, batchVars>>

InitClockSpec == InitClock /\ IdleExtract /\ IdleLocate /\ IdleSched /\ IdleBatch

SpecClock == InitClockSpec /\ [][NextClock]_vars


(***************************************************************************)
(* Claims about the ranking locator, under Spec.                           *)
(***************************************************************************)
Strategies == {"mobile", "browser"}

\* the strategy's page loop has ended
Finished(st) ==
    IF st = "mobile" THEN pc \notin {"start", "mobile"}
    ELSE browserRan /\ pc \notin {"fallback", "browser"}

InfoOf(st) == IF st = "mobile" THEN targetInfo ELSE browserInfo

ListOf(st) == IF st = "mobile" THEN products ELSE browserProducts

NoPageFailed(log) == \A i \in 1 .. Len(log) : log[i].kind = "ok"

\* the fetches are of pages 1, 2, ..., n in this order, and n <= max_pages
PagesInOrder(log) ==
    /\ Len(log) <= maxPages
    /\ \A i \in 1 .. Len(log) : log[i].page = i

\* a match on page p ends the strategy's fetches with page p
StopsAtMatch(st) ==
    InfoOf(st).found => Len(fetchLog[st]) = InfoOf(st).page[1]

\* C1, as amended: for every locate call with max_pages = k and for each fetch
\* strategy, the pages fetched are exactly 1, 2, ..., n in increasing order
\* with n <= k; a match on page p gives n = p for the strategy that matched;
\* when no page fails and nothing matches, Lightweight Fetch fetches all k
\* pages, and Rendered Fetch, once its page loop runs, fetches up to and
\* including its first page without records, or all k pages if there is none.
C1_PagesFetched ==
    /\ \A st \in Strategies : PagesInOrder(fetchLog[st]) /\ StopsAtMatch(st)
    /\ (Finished("mobile") /\ NoPageFailed(fetchLog.mobile) /\ ~targetInfo.found)
          => Len(fetchLog.mobile) = maxPages
    /\ (/\ Finished("browser")
        /\ fetchLog.browser # <<>>
        /\ NoPageFailed(fetchLog.browser)
        /\ ~browserInfo.found)
          => LET n == Len(fetchLog.browser)
             IN  /\ \A i \in 1 .. n - 1 : fetchLog.browser[i].count > 0
                 /\ n = maxPages \/ fetchLog.browser[n].count = 0

\* C1 as stated: each strategy whose page loop ran without a failed page and
\* without a match has fetched all k pages
C1_AllPagesUnlessMatchOrFailure ==
    \A st \in Strategies :
        (/\ Finished(st)
         /\ (st = "browser" => fetchLog.browser # <<>>)
         /\ NoPageFailed(fetchLog[st])
         /\ ~InfoOf(st).found)
            => Len(fetchLog[st]) = maxPages

\* a locate call with max_pages = 2 that matched on page 1 and fetched nothing more
C1_Witness ==
    /\ pc = "done"
    /\ caller = "locate"
    /\ maxPages = 2
    /\ targetInfo.found
    /\ targetInfo.page = Some(1)
    /\ Len(fetchLog.mobile) = 1

\* the records extracted from the first n pages of a strategy
SumCounts(log, n) ==
    LET sum[i \in 0 .. n] == IF i = 0 THEN 0 ELSE sum[i - 1] + log[i].count
    IN  sum[n]

\* the strategy the returned match comes from
MatchedStrategy == IF targetInfo.found THEN "mobile" ELSE "browser"

Located == ranking.done /\ ~ranking.raised /\ ranking.value[1].position # Null

\* C2: whenever locate reports a match on page p at on-page position m, the
\* absolute position it reports is the number of records extracted from
\* pages 1..p-1 of the strategy that matched, plus m, and the record at that
\* place of the strategy's list is the target; a match at position 9 of
\* page 1 gives absolute position 9 after exactly one fetch.
C2_AbsolutePosition ==
    Located =>
        LET r == ranking.value[1]
            st == MatchedStrategy
            p == r.page[1]
            m == r.position[1]
        IN  /\ InfoOf(st).found
            /\ p \in 1 .. Len(fetchLog[st])
            /\ m \in 1 .. fetchLog[st][p].count
            /\ r.page_product = Some(SumCounts(fetchLog[st], p - 1) + m)
            /\ ListOf(st)[r.page_product[1]].id = targetId
            /\ (p = 1 /\ m = 9) => (r.page_product = Some(9) /\ Len(fetchLog[st]) = 1)

\* a match at position 9 of page 2, after a first page with one record
C2_Witness ==
    /\ Located
    /\ caller = "locate"
    /\ ranking.value[1].page = Some(2)
    /\ ranking.value[1].position = Some(9)
    /\ ranking.value[1].page_product = Some(10)
    /\ pc = "done"

NotLocated == ranking.done /\ ~ranking.raised /\ ranking.value[1].position = Null

AllNull(r) ==
    r.position = Null /\ r.page_product = Null /\ r.page = Null /\ r.product = Null

\* C3, as amended: when neither strategy locates the target, position,
\* absolute position, page and product are all null, and total_found is the
\* number of records accumulated by Rendered Fetch if it yielded at least one
\* record, and by Lightweight Fetch otherwise.
C3_NotFoundResult ==
    NotLocated =>
        /\ AllNull(ranking.value[1])
        /\ ~targetInfo.found
        /\ ranking.value[1].total_found =
              IF Len(browserProducts) > 0 THEN Len(browserProducts) ELSE Len(products)

\* C3 as stated: total_found is the number of records of Lightweight Fetch
C3_NotFoundCountsStrategyOne ==
    NotLocated =>
        /\ AllNull(ranking.value[1])
        /\ ranking.value[1].total_found = Len(products)

\* a not-found result after Rendered Fetch gathered more records than Lightweight Fetch
C3_Witness ==
    /\ NotLocated
    /\ pc = "done"
    /\ Len(products) = 1
    /\ Len(browserProducts) = 2
    /\ ranking.value[1].total_found = 2

\* C4: Rendered Fetch is run only once Lightweight Fetch has ended without
\* locating the target; when it is run and yields at least one record, the
\* result is built from its list and its match outcome, and when it yields
\* none (or is unavailable) from those of Lightweight Fetch.
C4_FallbackReplaces ==
    /\ (browserRan \/ fetchLog.browser # <<>> \/ browserOpen)
          => (Finished("mobile") /\ ~targetInfo.found)
    /\ (~hasSelenium) => (fetchLog.browser = <<>> /\ browserProducts = <<>>)
    /\ (ranking.done /\ ~ranking.raised) =>
          LET st == IF browserRan /\ Len(browserProducts) > 0 THEN "browser" ELSE "mobile"
          IN  ranking.value[1] = RankingResult(ListOf(st), InfoOf(st), targetId)

\* Rendered Fetch ran after a Lightweight Fetch that had records, and found the target
C4_Witness ==
    /\ pc = "done"
    /\ ranking.done
    /\ browserRan
    /\ Len(products) > 0
    /\ browserInfo.found
    /\ ranking.value[1].page_product = browserInfo.page_product
    /\ ranking.value[1].total_found = Len(browserProducts)

FailureKinds == {"status", "transport", "parse", "wde", "error"}

\* C5: locate never raises for a transport, status or parse failure in either
\* strategy, it returns a result; when Lightweight Fetch fails on page 1 and
\* Rendered Fetch is unavailable the result is not-found with total_found 0.
C5_FailuresAbsorbed ==
    /\ ~ranking.raised
    /\ outcome # "raised" \/ caller # "locate"
    /\ \A st \in Strategies :
          (Finished(st) /\ fetchLog[st] # <<>>
              /\ fetchLog[st][Len(fetchLog[st])].kind \in FailureKinds)
            => pc \in {"fallback", "browser", "build", "post", "done"}
    /\ (caller = "locate" /\ pc = "done") =>
          /\ ranking.done
          /\ outcome = "returned"
          /\ (fetchLog.mobile # <<>> /\ fetchLog.mobile[1].kind # "ok" /\ ~hasSelenium)
                => (NotLocated /\ ranking.value[1].total_found = 0)

\* Lightweight Fetch failed to parse page 2, Rendered Fetch hit an error, locate returned
C5_Witness ==
    /\ caller = "locate"
    /\ pc = "done"
    /\ outcome = "returned"
    /\ Len(fetchLog.mobile) = 2
    /\ fetchLog.mobile[2].kind = "parse"
    /\ fetchLog.browser # <<>>
    /\ fetchLog.browser[Len(fetchLog.browser)].kind = "error"


\* the product URL holds no run of 10 or more digits between two "/"
Malformed(url) ==
    ~\E k \in 2 .. Len(url.path) - 1 : url.path[k].digits /\ url.path[k].n >= 10

NothingDone ==
    /\ fetchLog.mobile = <<>>
    /\ fetchLog.browser = <<>>
    /\ ~browserRan
    /\ ~browserOpen
    /\ trackedRows = <<>>
    /\ historyRows = <<>>

NoTwoAlike(recs) == \A i, j \in 1 .. Len(recs) : i # j => recs[i].id # recs[j].id

\* the records page p of a strategy added to its list
PageChunk(st, p) ==
    SubSeq(ListOf(st), SumCounts(fetchLog[st], p - 1) + 1, SumCounts(fetchLog[st], p))

\* C15, as amended: the records one page adds to the accumulated list of a
\* search run hold no identifier twice, and the list is the pages' records
\* one after the other: an identifier extracted from two different pages is
\* in the list once for each of them.
C15_UniquePerPage ==
    \A st \in Strategies :
        /\ Len(ListOf(st)) = SumCounts(fetchLog[st], Len(fetchLog[st]))
        /\ \A p \in 1 .. Len(fetchLog[st]) : NoTwoAlike(PageChunk(st, p))

\* C15 as stated: within one search run (all pages of one strategy in one
\* locate call) the accumulated list holds no two records with the same
\* identifier, also when an identifier is extracted from two different pages.
C15_UniqueWithinSearchRun == \A st \in Strategies : NoTwoAlike(ListOf(st))

\* Lightweight Fetch extracted the same identifier from page 1 and from page 2
C15_Witness ==
    /\ Len(fetchLog.mobile) = 2
    /\ Len(products) = 2
    /\ products[1].id = products[2].id
    /\ Finished("mobile")

\* the fetch before the last one of a log, or the last one, failed
FailedAt(log, q) == q \in 1 .. Len(log) /\ log[q].kind # "ok"

\* C16: when a Lightweight Fetch of page q fails (a status other than 200, a
\* transport error), the strategy fetches no further page and fetches neither
\* page q nor an earlier page again: it issued exactly q fetches, and it
\* returns the records accumulated from pages 1..q-1.
C16_FailedPageEndsLightweightFetch ==
    /\ PagesInOrder(fetchLog.mobile)
    /\ \A q \in 1 .. Len(fetchLog.mobile) :
          FailedAt(fetchLog.mobile, q) =>
              /\ q = Len(fetchLog.mobile)
              /\ Finished("mobile")
              /\ ~targetInfo.found
              /\ Len(products) = SumCounts(fetchLog.mobile, q - 1)

\* page 2 of 2 answered with a status other than 200 after a page 1 with one record
C16_Witness ==
    /\ caller = "locate"
    /\ maxPages = 2
    /\ Len(fetchLog.mobile) = 2
    /\ fetchLog.mobile[1].count = 1
    /\ fetchLog.mobile[2].kind = "status"
    /\ Len(products) = 1
    /\ pc = "done"

\* C18: a headless browser opened by Rendered Fetch is released before locate
\* returns on every exit path (target found, not found, empty page,
\* WebDriver error, any other exception): no browser opened by a locate call
\* is open once search_products_browser has ended.
C18_BrowserReleased ==
    /\ browserOpen => pc = "browser"
    /\ (ranking.done \/ Finished("browser")) => ~browserOpen

\* locate returned after a WebDriver error on the second page of Rendered Fetch
C18_Witness ==
    /\ pc = "done"
    /\ ranking.done
    /\ Len(fetchLog.browser) = 2
    /\ fetchLog.browser[2].kind = "wde"
    /\ ~browserOpen

\* C20: every result locate returns is consistent: position, absolute
\* position, page and product are all null or all set; when set, the
\* product's identifier is the target's, 1 <= position <= absolute position
\* <= total_found, and the page is between 1 and max_pages.
C20_ResultConsistent ==
    (ranking.done /\ ~ranking.raised) =>
        LET r == ranking.value[1]
        IN  \/ AllNull(r)
            \/ /\ r.position # Null /\ r.page_product # Null
               /\ r.page # Null /\ r.product # Null
               /\ r.product[1].id = targetId
               /\ 1 <= r.position[1]
               /\ r.position[1] <= r.page_product[1]
               /\ r.page_product[1] <= r.total_found
               /\ r.page[1] \in 1 .. maxPages

\* Rendered Fetch found the target ninth on its second page, after a first
\* page with one record: position 9, absolute position 10 of 25 records
C20_Witness ==
    /\ Located
    /\ browserInfo.found
    /\ ranking.value[1].position = Some(9)
    /\ ranking.value[1].page_product = Some(10)
    /\ ranking.value[1].page = Some(2)
    /\ ranking.value[1].total_found = 25
    /\ ranking.value[1].product[1].id = targetId

\* the located product's name is missing or the sentinel
NoUsableLocatedName(r) == r.product = Null \/ r.product[1].name = UnknownProduct

\* C17: whenever a check's located product name is the sentinel "Unknown
\* Product", or no product was located, the name the caller writes to the
\* history record is a name derived from the tracked URL and never the
\* sentinel; here for the caller track_product.
C17_HistoryNameFromUrl ==
    (caller = "track" /\ pc = "done" /\ historyRows # <<>>) =>
        LET written == historyRows[Len(historyRows)].product_name
        IN  /\ written # UnknownProduct
            /\ NoUsableLocatedName(ranking.value[1])
                  => written = ExtractNameFromUrl(productUrl)

(***************************************************************************)
(* Claims about the extractor, under SpecExtract.                          *)
(***************************************************************************)
\* the records the two passes come across, in the order they come across them
Candidates(markup) ==
    LET links == SelectSeq(markup, IsProductLink)
        cards == SelectSeq(markup, IsCard)
    IN  [i \in 1 .. Len(links) |-> LinkRecord(links[i])]
            \o [i \in 1 .. Len(cards) |-> CardRecord(cards[i])]

\* the places of a sequence of records that hold an identifier for the first time
FirstSeen(recs) ==
    {i \in 1 .. Len(recs) : \A j \in 1 .. i - 1 : recs[j].id # recs[i].id}

\* the k-th smallest element of a set of numbers
KthOf(S, k) == CHOOSE i \in S : Cardinality({j \in S : j <= i}) = k

\* C7: one extract call returns no two records with the same identifier, in
\* first-seen order; an identifier that occurs in several product links keeps
\* its first extraction only, and the pass over data-product-id elements
\* appends only identifiers the pass over links did not return.
C7_ExtractDedupes ==
    extracted.done =>
        LET out == extracted.value
            cand == Candidates(html)
            nLinks == Len(SelectSeq(html, IsProductLink))
            linkIds == {cand[i].id : i \in 1 .. nLinks}
        IN  /\ \A i, j \in 1 .. Len(out) : i # j => out[i].id # out[j].id
            /\ Len(out) = Cardinality(FirstSeen(cand))
            /\ \A k \in 1 .. Len(out) : out[k] = cand[KthOf(FirstSeen(cand), k)]
            /\ \A k \in 1 .. Len(out) :
                  KthOf(FirstSeen(cand), k) > nLinks => out[k].id \notin linkIds

\* two links to one product with different names, then cards of that product
\* and of another one: the first link's record and the new card's are returned
C7_Witness ==
    /\ extracted.done
    /\ Len(html) = 3
    /\ IsProductLink(html[1])
    /\ IsProductLink(html[2])
    /\ FirstIdMatch(html[1].href.path) = FirstIdMatch(html[2].href.path)
    /\ LinkName(html[1]) # LinkName(html[2])
    /\ IsCard(html[3])
    /\ html[3].dpid = IdC
    /\ Len(extracted.value) = 2
    /\ extracted.value[1].name = LinkName(html[1])
    /\ extracted.value[2].id = IdC

\* the value each rule of the fallback chain yields for a link when it is
\* usable: heading text, title attribute, own text, accessible label,
\* product-card neighbour
RuleValues(e) ==
    << IF e.h.n > 0 THEN Some(Trunc(Strip(e.h))) ELSE Null,
       IF e.title.n > 0 THEN Some(Trunc(Strip(e.title))) ELSE Null,
       IF e.text.n > MinLinkTextLen /\ e.text.cls \notin {"digit", "deny"}
       THEN Some(Trunc(Strip(e.text))) ELSE Null,
       IF e.aria.n > 0 THEN Some(Trunc(Strip(e.aria))) ELSE Null,
       IF e.testid /\ e.near.n > 0 THEN Some(Trunc(Strip(e.near))) ELSE Null >>

\* the value of the first rule that yields a usable one, else the sentinel
FirstUsable(e) ==
    LET usable == {k \in 1 .. 5 : RuleValues(e)[k] # Null}
    IN  IF usable = {} THEN UnknownProduct
        ELSE RuleValues(e)[CHOOSE k \in usable : \A j \in usable : k <= j][1]

\* C19: for each product link the extracted name is the value of the first
\* rule, in the order heading text, title attribute, own text, accessible
\* label, product-card neighbour, that yields a usable value; a rule whose
\* value is present but unusable is skipped and the next rule is tried; the
\* sentinel is returned only when no rule yields a usable value; every
\* returned name has at most 100 characters.
C19_FirstUsableRuleNamesLink ==
    extracted.done =>
        \A i \in 1 .. Len(html) :
            (/\ IsProductLink(html[i])
             /\ \A j \in 1 .. i - 1 :
                   IsProductLink(html[j]) =>
                       FirstIdMatch(html[j].href.path) # FirstIdMatch(html[i].href.path))
              => \E k \in 1 .. Len(extracted.value) :
                    /\ extracted.value[k].id = FirstIdMatch(html[i].href.path)
                    /\ extracted.value[k].name = FirstUsable(html[i])
                    /\ extracted.value[k].name.n <= MaxNameLen


(***************************************************************************)
(* Claims about the scheduler, under SpecSched.                            *)
(***************************************************************************)
LiveLoops == {t \in ThreadIds : Alive(t)}

\* no scheduled occurrence has the batch routine invoked by two loops
NoDoubleRun ==
    \A i, j \in 1 .. Len(batchLog) :
        (batchLog[i][2] = batchLog[j][2]) => (batchLog[i][1] = batchLog[j][1])

\* C8: after any sequence of start() and stop() calls at most one trigger loop
\* is active, and no two loops invoke the batch routine for the same
\* scheduled occurrence.
C8_SingleTriggerLoop ==
    /\ Cardinality(LiveLoops) <= 1
    /\ NoDoubleRun

\* C9: a loop that was asleep until its next run when stop() was called does
\* not invoke the batch routine when it wakes, whatever start() and stop()
\* calls happen in between.
C9_StopDuringSleepPreventsRun ==
    \A t \in ThreadIds : threads[t].pc = "batch" => ~threads[t].stopSeen

(***************************************************************************)
(* Claims about the next-run arithmetic, under SpecClock.                  *)
(***************************************************************************)
\* the wall-clock reading of instant t in the scheduler's timezone
LocalReading(t) == t + UtcOffset(t)

\* C10: nextRunAt is strictly after the current time and is 09:00 in the
\* scheduler's timezone: today's 09:00 if the local time is before 09:00,
\* tomorrow's if it is 09:00:00 or later.
C10_NextRunAtNine ==
    nextRun.done =>
        LET at == Instant(nextRun.value)
            today == LocalReading(nowUtc) \div Day
        IN  /\ at > nowUtc
            /\ LocalReading(at) % Day = 9 * 3600
            /\ LocalReading(at) \div Day =
                  IF LocalReading(nowUtc) % Day < 9 * 3600 THEN today ELSE today + 1

\* a step that changes the running flag is a call of start_scheduler or
\* stop_scheduler: it moves no loop
RunningSetByApiOnly ==
    running' # running =>
        /\ api = "idle"
        /\ \A t \in ThreadIds : threads'[t].pc = threads[t].pc

\* no loop ended by an exception, and a caught exception is followed by the
\* one-hour wait before the next run is computed again
LoopsSurviveErrors ==
    \A t \in ThreadIds :
        /\ ~threads[t].died
        /\ threads[t].pc = "backoff" =>
              /\ threads[t].errAt # Null
              /\ threads[t].wakeAt = threads[t].errAt[1] + BackoffSeconds
        /\ (threads[t].pc \in {"top", "compute"} /\ threads[t].errAt # Null) =>
              clock >= threads[t].errAt[1] + BackoffSeconds

\* a loop that ran the batch for an occurrence waits for a later one
LoopsRearm ==
    \A t \in ThreadIds : \A i \in 1 .. Len(batchLog) :
        (batchLog[i][1] = t /\ threads[t].pc \in {"sleeping", "woke"}) =>
            threads[t].nextRun > batchLog[i][2]

\* C14: while the scheduler is Running no error ends the trigger loop or flips
\* the running flag: an error of the batch routine is caught and the loop
\* re-arms for the next occurrence, and an error of the scheduling arithmetic
\* or the sleep is followed by the fixed one-hour backoff before the next run
\* is computed again.
C14_ErrorsKeepLoopRunning ==
    /\ [](LoopsSurviveErrors /\ LoopsRearm)
    /\ [][RunningSetByApiOnly]_vars

\* a loop caught an exception, waited the hour out and is computing again
C14_Witness ==
    \E t \in ThreadIds :
        /\ threads[t].pc = "compute"
        /\ threads[t].errAt # Null
        /\ clock = threads[t].errAt[1] + BackoffSeconds
        /\ running

(***************************************************************************)
(* Claims about the batch routine, under SpecBatch.                        *)
(***************************************************************************)
BatchEnded == batchPc \in {"done", "raised"}

\* the rows the run read that have a number of days set
Limited == {i \in 1 .. Len(rows) : rows[i].stop_after_days # Null
                                    /\ rows[i].stop_after_days[1].int}

\* the tick the entry expires at: createdAt + stopAfterDays
ExpiresAt(row) ==
    row.created_at.secs * TicksPerSecond + row.stop_after_days[1].n * Day * TicksPerSecond

HistoryOf(row) == SelectSeq(historyRows, LAMBDA h : h.keyword = row.keyword)

\* C11: for every active, schedule-enabled entry with createdAt = T and
\* stopAfterDays = d that a batch run read: if now >= T + d at its turn, the
\* batch deactivates it, records a deactivated_expired outcome and neither
\* invokes the locator nor appends a history record for it; one second
\* before T + d the entry stays active and is checked.
C11_ExpiredEntriesDeactivated ==
    BatchEnded =>
        \A i \in Limited :
            LET row == rows[i]
            IN  /\ trackerNow >= ExpiresAt(row) =>
                      \/ ~trackedRows[row.id].active
                      \/ \E k \in 1 .. Len(results) :
                            results[k].id = row.id /\ results[k].at < ExpiresAt(row)
                /\ \A k \in 1 .. Len(results) :
                      results[k].id = row.id =>
                          IF results[k].at >= ExpiresAt(row)
                          THEN /\ results[k].kind = "deactivated_expired"
                               /\ ~trackedRows[row.id].active
                               /\ HistoryOf(row) = <<>>
                          ELSE /\ results[k].kind \in {"checked", "error"}
                               /\ trackedRows[row.id].active

\* the entries a run that returned found expired at their turn are inactive
ExpiredOnesInactive ==
    batchPc = "done" =>
        /\ Len(results) = Len(rows)
        /\ \A i \in Limited :
              results[i].at >= ExpiresAt(rows[i]) => ~trackedRows[rows[i].id].active

\* a step deletes no row of tracked_products
NoRowDeleted ==
    /\ Len(trackedRows') >= Len(trackedRows)
    /\ \A i \in 1 .. Len(trackedRows) : trackedRows'[i].id = trackedRows[i].id

\* C12, as amended: after a batch run has returned, no entry it read (active
\* and schedule-enabled at its start) with stopAfterDays set and
\* createdAt + stopAfterDays at or before the time of its expiry check is
\* still active; entries that are not schedule-enabled are not examined;
\* deactivation never deletes a row.
C12_ReadExpiredEntriesInactive ==
    /\ []ExpiredOnesInactive
    /\ [][NoRowDeleted]_vars

\* C12 as stated: after a batch run completes at time now, no tracked entry
\* with stopAfterDays set and now >= createdAt + stopAfterDays is still
\* active, and no row is deleted.
C12_NoExpiredEntryActive ==
    batchPc = "done" =>
        \A i \in 1 .. Len(trackedRows) :
            (/\ trackedRows[i].stop_after_days # Null
             /\ trackedRows[i].stop_after_days[1].int
             /\ trackerNow >= ExpiresAt(trackedRows[i]))
               => ~trackedRows[i].active

\* a run returned that deactivated an entry at the very tick it expired, next
\* to an expired entry that is not schedule-enabled and still active
C12_Witness ==
    /\ batchPc = "done"
    /\ Len(trackedRows) = 2
    /\ \E k \in 1 .. Len(results) :
          /\ results[k].kind = "deactivated_expired"
          /\ results[k].at = ExpiresAt(trackedRows[results[k].id])
          /\ ~trackedRows[results[k].id].active
    /\ \E i \in 1 .. 2 :
          /\ ~trackedRows[i].daily_scheduler
          /\ trackedRows[i].active
          /\ trackerNow >= ExpiresAt(trackedRows[i])

\* C13: in one batch run every entry read is handled on its own: an
\* exception raised while handling an entry (in its expiry check, its
\* deactivation, its locate call or its store writes) becomes an error
\* outcome of that entry, every later entry is still handled, and the batch
\* returns one outcome per entry read.
C13_EntriesIndependent ==
    /\ batchPc # "raised"
    /\ batchPc = "done" => Len(results) = Len(rows)
    /\ \A k \in 1 .. Len(results) : results[k].id = rows[k].id

(***************************************************************************)
(* Claims about batch runs one after another, under SpecBatches.           *)
(***************************************************************************)
\* C21: after any sequence of batch runs the name backfill has written only
\* to entries whose stored name was empty and has never stored the sentinel
\* "Unknown Product" as an entry's name, so that no batch run takes the
\* sentinel from the stored name into a history record.
BackfillFillsEmptyOnly ==
    \A i \in 1 .. Len(trackedRows) :
        trackedRows'[i].product_name # trackedRows[i].product_name
            => ~Present(trackedRows[i].product_name)

NoSentinelStored ==
    /\ \A i \in 1 .. Len(trackedRows) : trackedRows[i].product_name # UnknownProduct
    /\ \A k \in 1 .. Len(historyRows) : historyRows[k].product_name # UnknownProduct

C21_BackfillNeverStoresSentinel ==
    [][BackfillFillsEmptyOnly]_vars /\ []NoSentinelStored

====
